---- MODULE Spec2Model ----
(***************************************************************************)
(* Model of pikaur/print_department.py: the upgrade-line formatter         *)
(* (pretty_format), the upgrade-set formatter (pretty_format_upgradeable), *)
(* the sysupgrade report (pretty_format_sysupgrade) and the search-result  *)
(* renderer (print_package_search_results).                                *)
(*                                                                         *)
(* A Python str is modelled as a Text: a sequence of chunks (TLA+ strings) *)
(* whose value is their concatenation.  Package names, versions and sort   *)
(* keys are Texts of one-character chunks, so that they can be compared    *)
(* character by character; literals of the source are kept as one chunk.   *)
(* A terminal escape sequence is one chunk of zero visible width.          *)
(***************************************************************************)
EXTENDS Integers, Sequences, FiniteSets, TLC

VARIABLES
    packages_updates,   \* pretty_format_upgradeable: the list of InstallInfo
    verbose,            \* pretty_format_upgradeable / pretty_format_sysupgrade argument
    print_repo,         \* pretty_format_upgradeable argument
    color,              \* pretty_format_upgradeable argument
    template,           \* pretty_format_upgradeable argument (<<>> is None)
    term_width,         \* what get_term_width() returns now
    upgrade_sorting,    \* PikaurConfig().sync.UpgradeSorting
    pc,                 \* position of the call in progress
    formatted,          \* the list comprehension built so far: pretty_format's results
    result,             \* the value returned by the call
    install_info,       \* pretty_format_sysupgrade: the InstallInfoFetcher's eight lists
    manual_package_selection, \* pretty_format_sysupgrade argument
    always_show_origin, \* PikaurConfig().sync.get_bool('AlwaysShowPkgOrigin')
    packages,           \* print_package_search_results: the packages found
    local_pkgs_versions,\* print_package_search_results: installed name -> version
    quiet,              \* parse_args().quiet
    enumerated,         \* print_package_search_results argument
    stdout              \* what print_package_search_results has printed, per package

vars == <<packages_updates, verbose, print_repo, color, template, term_width,
          upgrade_sorting, pc, formatted, result, install_info,
          manual_package_selection, always_show_origin, packages,
          local_pkgs_versions, quiet, enumerated, stdout>>

-----------------------------------------------------------------------------
(* Python built-ins *)

Max(a, b) == IF a >= b THEN a ELSE b

Min(a, b) == IF a <= b THEN a ELSE b

\* ' ' * n: the empty string when n <= 0
Repeat(chunk, n) == [i \in 1..n |-> chunk]

\* sep.join(parts)
RECURSIVE Join(_, _)
Join(sep, parts) ==
    IF parts = <<>> THEN <<>>
    ELSE IF Len(parts) = 1 THEN parts[1]
    ELSE parts[1] \o sep \o Join(sep, Tail(parts))

\* len(text): every character counts, those of an escape sequence too
RECURSIVE StrLen(_)
StrLen(text) ==
    IF text = <<>> THEN 0 ELSE Len(text[1]) + StrLen(Tail(text))

\* str.format: every replacement field of the template that is a key of
\* fields is replaced by its value
RECURSIVE Format(_, _)
Format(tpl, fields) ==
    IF tpl = <<>> THEN <<>>
    ELSE (IF tpl[1] \in DOMAIN fields THEN fields[tpl[1]] ELSE <<tpl[1]>>)
         \o Format(Tail(tpl), fields)

Digit(d) == <<"0", "1", "2", "3", "4", "5", "6", "7", "8", "9">>[d + 1]

\* str(n) for n >= 0
RECURSIVE Digits(_)
Digits(n) == IF n < 10 THEN <<Digit(n)>> ELSE Digits(n \div 10) \o <<Digit(n % 10)>>

\* '{:04d}'.format(n): zero-padded to a width of four, the sign included
Format04d(n) ==
    IF n >= 0
    THEN Repeat("0", 4 - Len(Digits(n))) \o Digits(n)
    ELSE <<"-">> \o Repeat("0", 3 - Len(Digits(-n))) \o Digits(-n)

\* the code point of a character of the model's alphabet
Ord(c) ==
    CASE c = " " -> 32 [] c = "#" -> 35 [] c = "+" -> 43 [] c = "-" -> 45
      [] c = "." -> 46 [] c = "/" -> 47
      [] c = "0" -> 48 [] c = "1" -> 49 [] c = "2" -> 50 [] c = "3" -> 51
      [] c = "4" -> 52 [] c = "5" -> 53 [] c = "6" -> 54 [] c = "7" -> 55
      [] c = "8" -> 56 [] c = "9" -> 57 [] c = ":" -> 58
      [] c = "N" -> 78
      [] c = "a" -> 97 [] c = "b" -> 98 [] c = "c" -> 99 [] c = "d" -> 100
      [] c = "e" -> 101 [] c = "f" -> 102 [] c = "g" -> 103 [] c = "h" -> 104
      [] c = "i" -> 105 [] c = "j" -> 106 [] c = "k" -> 107 [] c = "l" -> 108
      [] c = "m" -> 109 [] c = "n" -> 110 [] c = "o" -> 111 [] c = "p" -> 112
      [] c = "q" -> 113 [] c = "r" -> 114 [] c = "s" -> 115 [] c = "t" -> 116
      [] c = "u" -> 117 [] c = "v" -> 118 [] c = "w" -> 119 [] c = "x" -> 120
      [] c = "y" -> 121 [] c = "z" -> 122

\* s < t for two str of one-character chunks: lexicographic by code point
RECURSIVE StrLess(_, _)
StrLess(s, t) ==
    IF t = <<>> THEN FALSE
    ELSE IF s = <<>> THEN TRUE
    ELSE IF s[1] = t[1] THEN StrLess(Tail(s), Tail(t))
    ELSE Ord(s[1]) < Ord(t[1])

\* one step of the stable sort: x, the last of the items, goes after every
\* element whose key is not greater than its own
RECURSIVE InsertBySortKey(_, _)
InsertBySortKey(x, sortedSeq) ==
    IF sortedSeq = <<>> THEN <<x>>
    ELSE IF StrLess(x[2], sortedSeq[1][2]) THEN <<x>> \o sortedSeq
    ELSE <<sortedSeq[1]>> \o InsertBySortKey(x, Tail(sortedSeq))

\* sorted(pairs, key=lambda x: x[1]): stable, ascending by the str x[1]
RECURSIVE SortedBySortKey(_)
SortedBySortKey(pairs) ==
    IF pairs = <<>> THEN <<>>
    ELSE InsertBySortKey(pairs[Len(pairs)],
                         SortedBySortKey(SubSeq(pairs, 1, Len(pairs) - 1)))

-----------------------------------------------------------------------------
(* pprint and i18n: the terminal primitives pretty_format calls *)

\* the escape sequence that starts color n
color_start(n) == "ESC[" \o ToString(n) \o "m"

color_reset == "ESC[0m"

bold_start == "ESC[1m"

EscapeChunks == {color_start(n) : n \in 0..15} \cup {color_reset, bold_start}

\* pprint.color_line(line, color_number, reset=True)
color_line(line, color_number, reset) ==
    <<color_start(color_number)>> \o line \o (IF reset THEN <<color_reset>> ELSE <<>>)

\* pprint.bold_line(line)
bold_line(line) == <<bold_start>> \o line \o <<color_reset>>

\* pprint.format_paragraph(text): the paragraph, indented
format_paragraph(text) == <<"    ">> \o text

\* i18n._n(singular, plural, count)
_n(singular, plural, count) == IF count = 1 THEN singular ELSE plural

\* the number of characters of a text that the terminal shows
RECURSIVE VisibleWidth(_)
VisibleWidth(text) ==
    IF text = <<>> THEN 0
    ELSE (IF text[1] \in EscapeChunks THEN 0 ELSE Len(text[1]))
         + VisibleWidth(Tail(text))

HasEscape(text) == \E i \in 1..Len(text) : text[i] \in EscapeChunks

-----------------------------------------------------------------------------
(* version.py, as section 4.1 of the specification describes it *)

IsSeparator(c) == c \in {".", "-", ":", "+"}

\* the weight of a pair of versions one of which is empty: the largest that
\* the four digits of the sort key hold
MaximalWeight == 9999

\* the delimiter-separated segments of a version
RECURSIVE SplitVersion(_)
SplitVersion(v) ==
    IF \A i \in 1..Len(v) : ~IsSeparator(v[i]) THEN <<v>>
    ELSE LET k == CHOOSE i \in 1..Len(v) :
                      IsSeparator(v[i]) /\ \A j \in 1..(i - 1) : ~IsSeparator(v[j])
         IN  <<SubSeq(v, 1, k - 1)>> \o SplitVersion(SubSeq(v, k + 1, Len(v)))

\* get_common_version(version1, version2) -> <<common_version, diff_weight>>
get_common_version(version1, version2) ==
    IF version1 = <<>> \/ version2 = <<>> THEN <<(<<>>), MaximalWeight>>
    ELSE IF version1 = version2 THEN <<version1, 0>>
    ELSE LET Differ(i) == \/ i > Len(version1)
                          \/ i > Len(version2)
                          \/ version1[i] # version2[i]
             m  == CHOOSE i \in 1..Max(Len(version1), Len(version2)) :
                       Differ(i) /\ \A j \in 1..(i - 1) : ~Differ(j)
             seps == {i \in 1..(m - 1) : IsSeparator(version1[i])}
             k  == IF seps = {} THEN 0 ELSE CHOOSE i \in seps : \A j \in seps : j <= i
             s1 == SplitVersion(version1)
             s2 == SplitVersion(version2)
         IN  <<SubSeq(version1, 1, k),
               Cardinality({i \in 1..Max(Len(s1), Len(s2)) :
                               i > Len(s1) \/ i > Len(s2) \/ s1[i] # s2[i]})>>

\* get_version_diff(version, common_version): the rest of version
get_version_diff(version, common_version) ==
    SubSeq(version, Len(common_version) + 1, Len(version))

-----------------------------------------------------------------------------
(* pretty_format_upgradeable.pretty_format: one InstallInfo's line *)

GROUP_COLOR == 4

REPLACEMENTS_COLOR == 14

\* color_config.get_int('Version'), 'VersionDiffOld', 'VersionDiffNew': the
\* values of the default configuration
version_color == 10

old_color == 11

new_color == 9

\* _color_line: color_line, or the lambda that returns the line when not color
ColorLine(clr, line, color_number) ==
    IF clr THEN color_line(line, color_number, TRUE) ELSE line

\* _bold_line: bold_line, or the lambda that returns the line when not color
BoldLine(clr, line) == IF clr THEN bold_line(line) ELSE line

\* _color_line('', n, reset=False) raises TypeError when _color_line is the
\* lambda of line 82, which takes no keyword: so does pretty_format for a
\* package with required_by or members_of
RaisesTypeError(pkg_update, clr) ==
    ~clr /\ (pkg_update.required_by # <<>> \/ pkg_update.members_of # <<>>)

\* int(x / 2.5): the quotient truncated toward zero
IntDiv2_5(x) == IF x >= 0 THEN (2 * x) \div 5 ELSE -((2 * (-x)) \div 5)

\* column_width = min(int(get_term_width() / 2.5), 37)
ColumnWidth(width) == Min(IntDiv2_5(width), 37)

\* '{}{}'.format(repository, name): None is formatted as 'None'
FormatRepository(repository) ==
    IF repository = <<>> THEN <<"N", "o", "n", "e">> ELSE repository

\* SortBy with the diff weight itself in the key: smallest diff first
SortBy_Ascending(pkg_update, diff_weight, sorting) ==
    IF sorting = "pkgname" THEN pkg_update.name
    ELSE IF sorting = "repo"
         THEN FormatRepository(pkg_update.repository) \o pkg_update.name
    ELSE Format04d(diff_weight) \o pkg_update.name

\* sort_by, for the UpgradeSorting of the configuration
SortBy(pkg_update, diff_weight, sorting) ==
    IF sorting = "pkgname" THEN pkg_update.name
    ELSE IF sorting = "repo"
         THEN FormatRepository(pkg_update.repository) \o pkg_update.name
    ELSE Format04d(9999 - diff_weight) \o pkg_update.name

\* days_old
DaysOld(pkg_update) ==
    IF pkg_update.devel_pkg_age_days # 0
    THEN <<" ", "(">> \o Digits(pkg_update.devel_pkg_age_days) \o <<" days old)">>
    ELSE <<>>

\* the uncolored decorations, whose len() is added to pkg_len
RequiredByPlain(pkg_update) ==
    Format(<<" (", "{}", ")">>,
           "{}" :> Format(<<"for ", "{pkg}">>,
                          "{pkg}" :> Join(<<", ">>, pkg_update.required_by)))

ProvidedByPlain(pkg_update) ==
    Format(<<" (", "{}", ")">>, "{}" :> Join(<<" # ">>, pkg_update.provided_by))

MembersOfPlain(pkg_update) ==
    Format(<<" (", "{}", ")">>,
           "{}" :> Format(_n(<<"{grp}", " group">>, <<"{grp}", " groups">>,
                             Len(pkg_update.members_of)),
                          "{grp}" :> Join(<<", ">>, pkg_update.members_of)))

ReplacesPlain(pkg_update) ==
    Format(<<" (replaces ", "{}", ")">>, "{}" :> Join(<<", ">>, pkg_update.replaces))

\* pkg_len at the return of pretty_format
PkgLen(pkg_update, prepo, vrb) ==
    StrLen(pkg_update.name)
    + (IF (prepo \/ vrb) /\ pkg_update.repository # <<>>
       THEN StrLen(pkg_update.repository) + 1
       ELSE IF prepo THEN StrLen(<<"aur/">>) ELSE 0)
    + (IF pkg_update.required_by # <<>> THEN StrLen(RequiredByPlain(pkg_update)) ELSE 0)
    + (IF pkg_update.provided_by # <<>> THEN StrLen(ProvidedByPlain(pkg_update)) ELSE 0)
    + (IF pkg_update.members_of # <<>> THEN StrLen(MembersOfPlain(pkg_update)) ELSE 0)
    + (IF pkg_update.replaces # <<>> THEN StrLen(ReplacesPlain(pkg_update)) ELSE 0)

\* the decorations as appended to pkg_name (color is on wherever reset=False
\* is passed: see RaisesTypeError)
RequiredByColored(pkg_update, clr) ==
    Format(ColorLine(clr, <<" (", "{}", ")">>, 3),
           "{}" :> Format(<<"for ", "{pkg}">>,
                          "{pkg}" :> Join(ColorLine(clr, <<", ">>, 3),
                                          [i \in DOMAIN pkg_update.required_by |->
                                              ColorLine(clr, pkg_update.required_by[i], 3 + 8)])
                                     \o color_line(<<>>, 3, FALSE)))

MembersOfColored(pkg_update, clr) ==
    ColorLine(clr,
        Format(ColorLine(clr, <<" (", "{}", ")">>, GROUP_COLOR),
               "{}" :> Format(_n(<<"{grp}", " group">>, <<"{grp}", " groups">>,
                                 Len(pkg_update.members_of)),
                              "{grp}" :> Join(ColorLine(clr, <<", ">>, GROUP_COLOR),
                                              [i \in DOMAIN pkg_update.members_of |->
                                                  ColorLine(clr, pkg_update.members_of[i],
                                                            GROUP_COLOR + 8)])
                                         \o color_line(<<>>, GROUP_COLOR, FALSE))),
        GROUP_COLOR)

\* pkg_name at the return of pretty_format
PkgName(pkg_update, clr, prepo, vrb) ==
    LET origin ==
            IF (prepo \/ vrb) /\ pkg_update.repository # <<>>
            THEN ColorLine(clr, pkg_update.repository \o <<"/">>, 13)
            ELSE IF prepo THEN ColorLine(clr, <<"aur/">>, 9) ELSE <<>>
        decorated ==
            origin \o BoldLine(clr, pkg_update.name)
            \o (IF pkg_update.required_by # <<>>
                THEN RequiredByColored(pkg_update, clr) ELSE <<>>)
            \o (IF pkg_update.provided_by # <<>>
                THEN ColorLine(clr, ProvidedByPlain(pkg_update), 2) ELSE <<>>)
            \o (IF pkg_update.members_of # <<>>
                THEN MembersOfColored(pkg_update, clr) ELSE <<>>)
            \o (IF pkg_update.replaces # <<>>
                THEN ColorLine(clr, ReplacesPlain(pkg_update), REPLACEMENTS_COLOR)
                ELSE <<>>)
    IN  IF pkg_update.replaces # <<>> /\ ~clr THEN <<"# ">> \o decorated ELSE decorated

\* Spacing without the floor of one space
Spacing_Unclamped(column_width, pkg_len) == Repeat(" ", column_width - pkg_len)

\* spacing=' ' * max(1, (column_width - pkg_len))
Spacing(column_width, pkg_len) == Repeat(" ", Max(1, column_width - pkg_len))

\* spacing2=' ' * max(1, (column_width - 18 - len(current_version) -
\*                        max(-1, (pkg_len - column_width))))
Spacing2(column_width, pkg_len, current_version) ==
    Repeat(" ", Max(1, column_width - 18 - StrLen(current_version)
                       - Max(-1, pkg_len - column_width)))

\* the layout used when template is None (or empty)
DefaultTemplate ==
    <<" ", "{pkg_name}", "{spacing}", " ", "{current_version}", "{spacing2}",
      "{version_separator}", "{new_version}", "{days_old}", "{verbose}">>

\* pretty_format(pkg_update): the frame at its return.  line and sort_by are
\* the pair returned; raised tells that TypeError left the function instead.
pretty_format(pkg_update, vrb, prepo, clr, tpl, width, sorting) ==
    LET common     == get_common_version(pkg_update.current_version,
                                         pkg_update.new_version)
        common_version == common[1]
        diff_weight    == common[2]
        column_width   == ColumnWidth(width)
        pkg_len        == PkgLen(pkg_update, prepo, vrb)
        pkg_name       == PkgName(pkg_update, clr, prepo, vrb)
        spacing        == Spacing(column_width, pkg_len)
        spacing2       == Spacing2(column_width, pkg_len, pkg_update.current_version)
        fields ==
            "{pkg_name}" :> pkg_name
            @@ "{days_old}" :> DaysOld(pkg_update)
            @@ "{current_version}" :>
                   (ColorLine(clr, common_version, version_color)
                    \o ColorLine(clr, get_version_diff(pkg_update.current_version,
                                                       common_version), old_color))
            @@ "{new_version}" :>
                   (ColorLine(clr, common_version, version_color)
                    \o ColorLine(clr, get_version_diff(pkg_update.new_version,
                                                       common_version), new_color))
            @@ "{version_separator}" :>
                   (IF pkg_update.current_version # <<>> \/ pkg_update.new_version # <<>>
                    THEN <<" -> ">> ELSE <<>>)
            @@ "{spacing}" :> spacing
            @@ "{spacing2}" :> spacing2
            @@ "{verbose}" :>
                   (IF ~(vrb /\ pkg_update.description # <<>>) THEN <<>>
                    ELSE <<"\n">> \o format_paragraph(pkg_update.description))
    IN  IF RaisesTypeError(pkg_update, clr)
        THEN [raised |-> TRUE, line |-> <<>>, sort_by |-> <<>>,
              pkg_name |-> <<>>, pkg_len |-> 0, column_width |-> column_width,
              spacing |-> <<>>, spacing2 |-> <<>>, sorting |-> sorting]
        ELSE [raised |-> FALSE,
              line |-> Format(IF tpl # <<>> THEN tpl ELSE DefaultTemplate, fields),
              sort_by |-> SortBy(pkg_update, diff_weight, sorting),
              pkg_name |-> pkg_name, pkg_len |-> pkg_len,
              column_width |-> column_width,
              spacing |-> spacing, spacing2 |-> spacing2, sorting |-> sorting]

-----------------------------------------------------------------------------
(* pretty_format_upgradeable: the list comprehension, then sorted and join *)

\* '\n'.join([line for line, _ in sorted(pairs, key=lambda x: x[1])])
JoinSorted(frames) ==
    LET pairs  == [i \in DOMAIN frames |-> <<frames[i].line, frames[i].sort_by>>]
        sorted == SortedBySortKey(pairs)
    IN  Join(<<"\n">>, [i \in DOMAIN sorted |-> sorted[i][1]])

\* pretty_format_upgradeable as one call, with the terminal and the
\* configuration unchanged while it runs
pretty_format_upgradeable(pkgs, vrb, prepo, clr, tpl, width, sorting) ==
    LET frames == [i \in DOMAIN pkgs |->
                      pretty_format(pkgs[i], vrb, prepo, clr, tpl, width, sorting)]
    IN  IF \E i \in DOMAIN frames : frames[i].raised
        THEN [raised |-> TRUE, text |-> <<>>]
        ELSE [raised |-> FALSE, text |-> JoinSorted(frames)]

sysVars == <<install_info, manual_package_selection, always_show_origin>>

searchVars == <<packages, local_pkgs_versions, quiet, enumerated, stdout>>

argVars == <<packages_updates, verbose, print_repo, color, template>>

\* one iteration of the list comprehension: pretty_format(pkg_update), which
\* reads get_term_width() and PikaurConfig() itself
FormatNext ==
    /\ pc = "formatting"
    /\ Len(formatted) < Len(packages_updates)
    /\ LET frame == pretty_format(packages_updates[Len(formatted) + 1], verbose,
                                  print_repo, color, template, term_width,
                                  upgrade_sorting)
       IN  IF frame.raised
           THEN pc' = "raised" /\ UNCHANGED formatted
           ELSE pc' = "formatting" /\ formatted' = Append(formatted, frame)
    /\ UNCHANGED <<argVars, term_width, upgrade_sorting, result, sysVars, searchVars>>

\* the comprehension is complete: sort, join and return
SortJoin ==
    /\ pc = "formatting"
    /\ Len(formatted) = Len(packages_updates)
    /\ result' = JoinSorted(formatted)
    /\ pc' = "returned"
    /\ UNCHANGED <<argVars, term_width, upgrade_sorting, formatted, sysVars, searchVars>>

\* widths of the terminal: none and negative, narrow, wide
TermWidths == {-10, 0, 20, 100}

ResizeWidths == {20, 100}

\* the terminal is resized while pretty_format_upgradeable runs
Resize ==
    /\ pc = "formatting"
    /\ Len(formatted) < Len(packages_updates)
    /\ \E w \in ResizeWidths : w # term_width /\ term_width' = w
    /\ UNCHANGED <<argVars, upgrade_sorting, pc, formatted, result, sysVars, searchVars>>

-----------------------------------------------------------------------------
(* pretty_format_sysupgrade: the eight blocks of the report *)

\* SysupgradeColor that manual_package_selection does not turn off
SysupgradeColor_AlwaysOn(manual) == TRUE

\* color = True, and False with manual_package_selection
SysupgradeColor(manual) == ~manual

\* new_repo_deps, new_thirdparty_repo_deps, new_aur_deps: None (here the
\* empty list) with manual_package_selection
NewDeps(deps, manual) == IF manual THEN <<>> ELSE deps

\* the blocks in the order of the source.  pkgs: the list tested and
\* rendered; count: the number handed to _n; bullet: the color of '::';
\* prepo: print_repo, "config" standing for AlwaysShowPkgOrigin
SysupgradeBlocks(info, manual) ==
    << [pkgs |-> info.repo_replacements_install_info,
        count |-> Len(info.repo_replacements_install_info),
        bullet |-> 12,
        singular |-> "Repository package suggested as a replacement:",
        plural |-> "Repository packages suggested as a replacement:",
        prepo |-> "config"],
       [pkgs |-> info.thirdparty_repo_replacements_install_info,
        count |-> Len(info.repo_packages_install_info),
        bullet |-> 12,
        singular |-> "Third-party repository package suggested as a replacement:",
        plural |-> "Third-party repository packages suggested as a replacement:",
        prepo |-> "config"],
       [pkgs |-> info.repo_packages_install_info,
        count |-> Len(info.repo_packages_install_info),
        bullet |-> 12,
        singular |-> "Repository package will be installed:",
        plural |-> "Repository packages will be installed:",
        prepo |-> "config"],
       [pkgs |-> NewDeps(info.new_repo_deps_install_info, manual),
        count |-> Len(NewDeps(info.new_repo_deps_install_info, manual)),
        bullet |-> 11,
        singular |-> "New dependency will be installed from repository:",
        plural |-> "New dependencies will be installed from repository:",
        prepo |-> "config"],
       [pkgs |-> info.thirdparty_repo_packages_install_info,
        count |-> Len(info.thirdparty_repo_packages_install_info),
        bullet |-> 12,
        singular |-> "Third-party repository package will be installed:",
        plural |-> "Third-party repository packages will be installed:",
        prepo |-> "yes"],
       [pkgs |-> NewDeps(info.new_thirdparty_repo_deps_install_info, manual),
        count |-> Len(NewDeps(info.new_thirdparty_repo_deps_install_info, manual)),
        bullet |-> 11,
        singular |-> "New dependency will be installed from third-party repository:",
        plural |-> "New dependencies will be installed from third-party repository:",
        prepo |-> "config"],
       [pkgs |-> info.aur_updates_install_info,
        count |-> Len(info.aur_updates_install_info),
        bullet |-> 14,
        singular |-> "AUR package will be installed:",
        plural |-> "AUR packages will be installed:",
        prepo |-> "no"],
       [pkgs |-> NewDeps(info.aur_deps_install_info, manual),
        count |-> Len(NewDeps(info.aur_deps_install_info, manual)),
        bullet |-> 11,
        singular |-> "New dependency will be installed from AUR:",
        plural |-> "New dependencies will be installed from AUR:",
        prepo |-> "no"] >>

\* '\n{} {}'.format(_color_line('::', bullet), _bold_line(_n(...)))
BlockHeader(block, clr) ==
    <<"\n">> \o ColorLine(clr, <<"::">>, block.bullet) \o <<" ">>
    \o BoldLine(clr, <<_n(block.singular, block.plural, block.count)>>)

\* BlockItems without the test of the list: a header for an empty category too
BlockItems_NoSkip(block, vrb, clr, show_origin, width, sorting) ==
    << [raised |-> FALSE, text |-> BlockHeader(block, clr)],
       pretty_format_upgradeable(
           block.pkgs, vrb,
           IF block.prepo = "config" THEN show_origin ELSE block.prepo = "yes",
           clr, <<>>, width, sorting) >>

\* what one block appends to result: nothing for an empty list
BlockItems(block, vrb, clr, show_origin, width, sorting) ==
    IF block.pkgs = <<>> THEN <<>>
    ELSE << [raised |-> FALSE, text |-> BlockHeader(block, clr)],
            pretty_format_upgradeable(
                block.pkgs, vrb,
                IF block.prepo = "config" THEN show_origin ELSE block.prepo = "yes",
                clr, <<>>, width, sorting) >>

RECURSIVE AllBlockItems(_, _, _, _, _, _)
AllBlockItems(blocks, vrb, clr, show_origin, width, sorting) ==
    IF blocks = <<>> THEN <<>>
    ELSE BlockItems(blocks[1], vrb, clr, show_origin, width, sorting)
         \o AllBlockItems(Tail(blocks), vrb, clr, show_origin, width, sorting)

\* pretty_format_sysupgrade(install_info, verbose, manual_package_selection)
pretty_format_sysupgrade(info, vrb, manual, show_origin, width, sorting) ==
    LET clr   == SysupgradeColor(manual)
        items == AllBlockItems(SysupgradeBlocks(info, manual), vrb, clr,
                               show_origin, width, sorting)
    IN  IF \E i \in DOMAIN items : items[i].raised
        THEN [raised |-> TRUE, text |-> <<>>]
        ELSE [raised |-> FALSE,
              text |-> Join(<<"\n">>, [i \in DOMAIN items |-> items[i].text]
                                      \o <<(<<>>)>>)]

upgVars == <<packages_updates, print_repo, color, template, formatted>>

\* the call of pretty_format_sysupgrade
Sysupgrade ==
    /\ pc = "called"
    /\ LET r == pretty_format_sysupgrade(install_info, verbose,
                                         manual_package_selection,
                                         always_show_origin, term_width,
                                         upgrade_sorting)
       IN  /\ pc' = IF r.raised THEN "raised" ELSE "returned"
           /\ result' = r.text
    /\ UNCHANGED <<upgVars, verbose, term_width, upgrade_sorting, sysVars, searchVars>>

-----------------------------------------------------------------------------
(* print_package_search_results *)

\* None, for numvotes, popularity and outofdate
Absent == -1

\* a popularity is a number, a float or an int: its value is held as a whole
\* number of 1/PopScale, its Python type in the field popularity_type
PopScale == 4

\* isinstance(numvotes, int): the votes are an int or None
IsInt(numvotes) == numvotes # Absent

\* isinstance(pkg.popularity, float): false of None and of an int such as
\* the 0 json.loads gives for "Popularity": 0
IsFloat(pkg) == pkg.popularity_type = "float"

\* the default of the enumerate_from argument
enumerate_from == 0

\* get_sort_key(pkg), times PopScale
get_sort_key(pkg) ==
    IF pkg.kind = "aur" /\ IsInt(pkg.numvotes) /\ IsFloat(pkg)
    THEN (pkg.numvotes + 1) * (pkg.popularity + PopScale)
    ELSE 1 * PopScale

\* one step of the stable sort with reverse=True: x, the last of the items,
\* goes after every element whose key is not smaller than its own
RECURSIVE InsertByRating(_, _)
InsertByRating(x, sortedSeq) ==
    IF sortedSeq = <<>> THEN <<x>>
    ELSE IF get_sort_key(sortedSeq[1]) < get_sort_key(x) THEN <<x>> \o sortedSeq
    ELSE <<sortedSeq[1]>> \o InsertByRating(x, Tail(sortedSeq))

\* sorted(packages, key=get_sort_key, reverse=True)
RECURSIVE SortedByRating(_)
SortedByRating(pkgs) ==
    IF pkgs = <<>> THEN <<>>
    ELSE InsertByRating(pkgs[Len(pkgs)],
                        SortedByRating(SubSeq(pkgs, 1, Len(pkgs) - 1)))

\* pretty_format_repo_name(repo_name)
pretty_format_repo_name(repo_name) ==
    color_line(repo_name \o <<"/">>, (StrLen(repo_name) % 5) + 10, TRUE)

\* '{:.2f}'.format(popularity)
Format2f(popularity) ==
    LET cents == ((popularity % PopScale) * 100) \div PopScale
    IN  Digits(popularity \div PopScale) \o <<".", Digit(cents \div 10), Digit(cents % 10)>>

\* datetime.fromtimestamp(ts).strftime('%Y/%m/%d'), for a time of January
\* 1970 in a UTC locale
StrfDate(ts) ==
    LET day == ts \div 86400 + 1
    IN  <<"1970/01/", Digit(day \div 10), Digit(day % 10)>>

\* InstalledMarker that names the installed version also when it is the
\* version found
InstalledMarker_AlwaysVersion(package, local_versions) ==
    IF package.name \in DOMAIN local_versions
    THEN color_line(Format(<<"[installed: ", "{version}", "]">>,
                           "{version}" :> local_versions[package.name])
                    \o <<" ">>, 14, TRUE)
    ELSE <<>>

\* installed: the marker of a package of local_pkgs_versions
InstalledMarker(package, local_versions) ==
    IF package.name \in DOMAIN local_versions
    THEN IF package.version # local_versions[package.name]
         THEN color_line(Format(<<"[installed: ", "{version}", "]">>,
                                "{version}" :> local_versions[package.name])
                         \o <<" ">>, 14, TRUE)
         ELSE color_line(<<"[installed]">> \o <<" ">>, 14, TRUE)
    ELSE <<>>

\* the line printed for a package when not quiet
SearchLine(package, pkg_idx, local_versions, enum) ==
    LET idx == IF enum
               THEN bold_line(Digits(pkg_idx + enumerate_from) \o <<") ">>)
               ELSE <<>>
        repo == IF package.kind = "repo"
                THEN pretty_format_repo_name(package.db)
                ELSE color_line(<<"aur/">>, 9, TRUE)
        groups == IF package.groups # <<>>
                  THEN color_line(<<"(">> \o Join(<<" ">>, package.groups) \o <<") ">>,
                                  GROUP_COLOR, TRUE)
                  ELSE <<>>
        rating == IF /\ package.kind = "aur"
                     /\ package.numvotes # Absent
                     /\ package.popularity # Absent
                  THEN color_line(<<"(">> \o Digits(package.numvotes) \o <<", ">>
                                  \o Format2f(package.popularity) \o <<")">>, 3, TRUE)
                  ELSE <<>>
        outdated == package.kind = "aur" /\ package.outofdate # Absent
        version == IF outdated
                   THEN package.version \o <<" [", "outofdate", ": ">>
                        \o StrfDate(package.outofdate) \o <<"]">>
                   ELSE package.version
    IN  idx \o repo \o bold_line(package.name) \o <<" ">>
        \o color_line(version, IF outdated THEN old_color ELSE version_color, TRUE)
        \o <<" ">> \o groups \o InstalledMarker(package, local_versions) \o rating

\* one iteration of the loop over the sorted packages: what it prints
PrintNext ==
    /\ pc = "printing"
    /\ Len(stdout) < Len(packages)
    /\ LET pkg_idx == Len(stdout)
           package == SortedByRating(packages)[pkg_idx + 1]
       IN  stdout' = Append(stdout,
                IF quiet THEN <<package.name>>
                ELSE <<SearchLine(package, pkg_idx, local_pkgs_versions, enumerated),
                       format_paragraph(package.desc)>>)
    /\ UNCHANGED <<upgVars, verbose, term_width, upgrade_sorting, pc, result, sysVars,
                   packages, local_pkgs_versions, quiet, enumerated>>

\* the loop is over: return
SearchReturn ==
    /\ pc = "printing"
    /\ Len(stdout) = Len(packages)
    /\ pc' = "returned"
    /\ UNCHANGED <<upgVars, verbose, term_width, upgrade_sorting, result, sysVars,
                   searchVars>>

-----------------------------------------------------------------------------
(* Inputs *)

\* the longest list of dependents and of groups of one InstallInfo
MaxList == 2

\* the longest list handed to pretty_format_upgradeable
MaxUpdates == 2

Prefixes(base, n) == {SubSeq(base, 1, k) : k \in 0..Min(n, Len(base))}

V10 == <<"1", ".", "0">>

V11 == <<"1", ".", "1">>

V21 == <<"2", ".", "1">>

InstallInfo(name, current_version, new_version, repository) ==
    [name |-> name, current_version |-> current_version,
     new_version |-> new_version, repository |-> repository,
     required_by |-> <<>>, provided_by |-> <<>>, members_of |-> <<>>,
     replaces |-> <<>>, devel_pkg_age_days |-> 0, description |-> <<>>]

\* the records of the one-line runs: every optional field empty or not
LinePackages ==
    {[InstallInfo(name, versions[1], versions[2], repository) EXCEPT
        !.required_by = required_by, !.provided_by = provided_by,
        !.members_of = members_of, !.replaces = replaces,
        !.devel_pkg_age_days = extra[1], !.description = extra[2]] :
        name \in {<<"a">>, <<"a", "b", "c">>},
        versions \in {<<(<<>>), (<<>>)>>, <<(<<>>), V10>>, <<V10, V11>>},
        repository \in {<<>>, <<"c", "o", "r", "e">>},
        required_by \in Prefixes(<<(<<"x">>), (<<"y">>), (<<"z">>), (<<"x", "y">>)>>, MaxList),
        provided_by \in {<<>>, <<(<<"y">>)>>},
        members_of \in Prefixes(<<(<<"g">>), (<<"f">>), (<<"e">>), (<<"d">>)>>, MaxList),
        replaces \in {<<>>, <<(<<"z">>)>>},
        extra \in {<<0, (<<>>)>>, <<3, (<<"d">>)>>}}

\* the template of print_ignored_package
IgnoredTemplate ==
    <<"{pkg_name}", " (", "{current_version}", " => ", "{new_version}", ")">>

\* the records of the sorting runs: three names, four diff weights
UpgPackages ==
    {InstallInfo(name, versions[1], versions[2], <<>>) :
        name \in {<<"a">>, <<"a", "b">>, <<"b">>},
        versions \in {<<V10, V10>>, <<V10, V11>>, <<V10, V21>>, <<(<<>>), V10>>}}

SeqsUpTo(S, n) == UNION {[1..k -> S] : k \in 0..n}

NoSysupgrade ==
    /\ install_info = <<>>
    /\ manual_package_selection = FALSE
    /\ always_show_origin = FALSE

NoSearch ==
    /\ packages = <<>>
    /\ local_pkgs_versions = <<>>
    /\ quiet = FALSE
    /\ enumerated = FALSE
    /\ stdout = <<>>

\* pretty_format_upgradeable is called with one InstallInfo
InitLine ==
    /\ \E pkg \in LinePackages : packages_updates = <<pkg>>
    /\ verbose \in BOOLEAN
    /\ print_repo \in BOOLEAN
    /\ color \in BOOLEAN
    /\ template \in {<<>>, IgnoredTemplate}
    /\ term_width \in TermWidths
    /\ upgrade_sorting = "versiondiff"
    /\ pc = "formatting"
    /\ formatted = <<>>
    /\ result = <<>>
    /\ NoSysupgrade
    /\ NoSearch

NextLine == FormatNext \/ SortJoin

SpecLine == InitLine /\ [][NextLine]_vars

\* pretty_format_upgradeable is called with a list, in a terminal that may
\* be resized
InitUpg ==
    /\ packages_updates \in SeqsUpTo(UpgPackages, MaxUpdates)
    /\ verbose = FALSE
    /\ print_repo = FALSE
    /\ color = TRUE
    /\ template = <<>>
    /\ term_width \in ResizeWidths
    /\ upgrade_sorting \in {"versiondiff", "pkgname", "repo"}
    /\ pc = "formatting"
    /\ formatted = <<>>
    /\ result = <<>>
    /\ NoSysupgrade
    /\ NoSearch

NextUpg == FormatNext \/ SortJoin \/ Resize

SpecUpg == InitUpg /\ [][NextUpg]_vars

\* the longest list of one category of the sysupgrade
MaxCategory == 2

\* the lists of the InstallInfoFetcher, in the order of the report
FixedOrder ==
    <<"repo_replacements_install_info",
      "thirdparty_repo_replacements_install_info",
      "repo_packages_install_info",
      "new_repo_deps_install_info",
      "thirdparty_repo_packages_install_info",
      "new_thirdparty_repo_deps_install_info",
      "aur_updates_install_info",
      "aur_deps_install_info">>

NewDepCategories ==
    {"new_repo_deps_install_info", "new_thirdparty_repo_deps_install_info",
     "aur_deps_install_info"}

\* the j-th InstallInfo of the k-th category: its name tells the category;
\* a replacement replaces a package, the second repository update is member
\* of a group, the second new dependency is required by a package, the
\* second of every category differs most from the installed version
SysRecord(k, j) ==
    LET name == <<(<<"a", "b", "d", "f", "g", "h", "i", "j">>)[k], Digit(j)>>
        repository ==
            IF k \in {1, 3, 4} THEN <<"c", "o", "r", "e">>
            ELSE IF k \in {2, 5, 6} THEN <<"x", "y", "z">> ELSE <<>>
        base == InstallInfo(name, V10, IF j = 2 THEN V21 ELSE V11, repository)
    IN  [base EXCEPT
            !.replaces = IF k \in {1, 2} THEN <<(<<"o", "l", "d">>)>> ELSE <<>>,
            !.members_of = IF k = 3 /\ j = 2 THEN <<(<<"g", "r", "p">>)>> ELSE <<>>,
            !.required_by = IF k \in {4, 6, 8} /\ j = 2
                            THEN <<(<<"t", "o", "p">>)>> ELSE <<>>]

\* how many InstallInfo the k-th category can hold: three where the
\* third-party replacements and the repository updates meet, two elsewhere
PoolSize(k) == IF k \in {2, 3} THEN 3 ELSE 2

\* the InstallInfoFetcher whose k-th list holds sizes[k] records
Fetcher(sizes) ==
    [c \in {FixedOrder[k] : k \in 1..8} |->
        LET k == CHOOSE n \in 1..8 : FixedOrder[n] = c
        IN  [j \in 1..sizes[k] |-> SysRecord(k, j)]]

NoUpgradeable ==
    /\ packages_updates = <<>>
    /\ print_repo = FALSE
    /\ color = TRUE
    /\ template = <<>>
    /\ formatted = <<>>

\* pretty_format_sysupgrade is called
InitSys ==
    /\ \E sizes \in [1..8 -> 0..MaxCategory] :
           /\ \A k \in 1..8 : sizes[k] <= PoolSize(k)
           /\ install_info = Fetcher(sizes)
    /\ manual_package_selection \in BOOLEAN
    /\ always_show_origin \in BOOLEAN
    /\ verbose = FALSE
    /\ term_width = 20
    /\ upgrade_sorting = "versiondiff"
    /\ pc = "called"
    /\ result = <<>>
    /\ NoUpgradeable
    /\ NoSearch

NextSys == Sysupgrade

SpecSys == InitSys /\ [][NextSys]_vars

\* the longest list of packages found by a search
MaxPackages == 3

\* a float popularity of q / PopScale
PyFloat(q) == [type |-> "float", value |-> q]

\* an int popularity of n
PyInt(n) == [type |-> "int", value |-> n * PopScale]

\* a popularity of None
PyNone == [type |-> "NoneType", value |-> Absent]

AURPackageInfo(name, version, numvotes, popularity, outofdate) ==
    [kind |-> "aur", name |-> name, version |-> version, desc |-> <<"text">>,
     db |-> <<>>, groups |-> <<>>, numvotes |-> numvotes,
     popularity |-> popularity.value, popularity_type |-> popularity.type,
     outofdate |-> outofdate]

AlpmPackage(name, version, db, groups) ==
    [kind |-> "repo", name |-> name, version |-> version, desc |-> <<"text">>,
     db |-> db, groups |-> groups, numvotes |-> Absent,
     popularity |-> Absent, popularity_type |-> "NoneType",
     outofdate |-> Absent]

\* the packages a search may find: of a repository, and of the AUR with
\* (numvotes, popularity) of (10, 2.0), (0, 0.0), (1, 0.5), without both,
\* with votes only, and of (5, 0) and (3, 2), the popularity an int
SearchPool ==
    {AlpmPackage(<<"a">>, V10, <<"core">>, <<(<<"base">>)>>),
     AlpmPackage(<<"b">>, V11, <<"extra">>, <<>>),
     AURPackageInfo(<<"c">>, V11, 10, PyFloat(2 * PopScale), Absent),
     AURPackageInfo(<<"d">>, V10, 0, PyFloat(0), 86400),
     AURPackageInfo(<<"e">>, V10, 1, PyFloat(PopScale \div 2), Absent),
     AURPackageInfo(<<"f">>, V10, Absent, PyNone, Absent),
     AURPackageInfo(<<"g">>, V10, 3, PyNone, Absent),
     AURPackageInfo(<<"h">>, V10, 5, PyInt(0), Absent),
     AURPackageInfo(<<"k">>, V10, 3, PyInt(2), Absent)}

\* the installed versions: of a, c and e, each either the version found or
\* another
LocalVersions ==
    {<<>>,
     <<"a">> :> V10,
     <<"a">> :> V11 @@ <<"c">> :> V11,
     <<"a">> :> V10 @@ <<"c">> :> V10 @@ <<"e">> :> V21}

InitSearch ==
    /\ packages \in {q \in SeqsUpTo(SearchPool, MaxPackages) :
                        \A i, j \in DOMAIN q : i # j => q[i] # q[j]}
    /\ local_pkgs_versions \in LocalVersions
    /\ quiet \in BOOLEAN
    /\ enumerated \in BOOLEAN
    /\ stdout = <<>>
    /\ pc = "printing"
    /\ verbose = FALSE
    /\ term_width = 100
    /\ upgrade_sorting = "versiondiff"
    /\ result = <<>>
    /\ install_info = <<>>
    /\ manual_package_selection = FALSE
    /\ always_show_origin = FALSE
    /\ NoUpgradeable

NextSearch == PrintNext \/ SearchReturn

SpecSearch == InitSearch /\ [][NextSearch]_vars

-----------------------------------------------------------------------------
(* Claims about pretty_format (SpecLine) *)

\* C3: rendering one record never raises: for every InstallInfo and every
\* style, color disabled included, pretty_format returns its (line, sort_by)
\* pair.
C3_NeverRaises == pc # "raised"

\* C8: in the default layout, whatever the name length, the length of the
\* current version and the terminal width (zero and negative included), the
\* padding after the name and the padding before the version arrow are each
\* at least one space, and that is how the line is laid out.
C8_PaddingAtLeastOne ==
    \A i \in DOMAIN formatted :
        template = <<>> =>
            LET f == formatted[i]
                n == Len(f.pkg_name)
            IN  /\ Len(f.spacing) >= 1
                /\ Len(f.spacing2) >= 1
                /\ \A k \in DOMAIN f.spacing : f.spacing[k] = " "
                /\ \A k \in DOMAIN f.spacing2 : f.spacing2[k] = " "
                /\ SubSeq(f.line, 1, n + 1 + Len(f.spacing))
                       = <<" ">> \o f.pkg_name \o f.spacing

\* a line laid out in a terminal of no or negative width, its name wider
\* than the column
C8_Witness ==
    /\ pc = "returned"
    /\ template = <<>>
    /\ term_width <= 0
    /\ Len(formatted) = 1
    /\ formatted[1].pkg_len > formatted[1].column_width
    /\ Len(formatted[1].spacing) = 1

\* C9: for every record and every style, the name length used for the column
\* padding equals the visible width of the rendered display name, escape
\* sequences excluded.
C9_PkgLenIsVisibleWidth ==
    \A i \in DOMAIN formatted :
        formatted[i].pkg_len = VisibleWidth(formatted[i].pkg_name)

-----------------------------------------------------------------------------
(* Claims about pretty_format_upgradeable (SpecUpg) *)

\* the lines of a text
RECURSIVE SplitLines(_)
SplitLines(text) ==
    IF \A i \in DOMAIN text : text[i] # "\n" THEN <<text>>
    ELSE LET k == CHOOSE i \in DOMAIN text :
                      text[i] = "\n" /\ \A j \in 1..(i - 1) : text[j] # "\n"
         IN  <<SubSeq(text, 1, k - 1)>> \o SplitLines(SubSeq(text, k + 1, Len(text)))

OutputLines == IF packages_updates = <<>> THEN <<>> ELSE SplitLines(result)

DiffWeightOf(pkg_update) ==
    get_common_version(pkg_update.current_version, pkg_update.new_version)[2]

\* C6: with the default sorting, the output holds every record's line, a
\* record of larger diff weight before one of smaller, and records of equal
\* diff weight in ascending order of name.
C6_DiffWeightOrder ==
    (pc = "returned" /\ upgrade_sorting \notin {"pkgname", "repo"}) =>
        /\ Len(OutputLines) = Len(packages_updates)
        /\ \A k \in DOMAIN formatted :
               \E i \in DOMAIN OutputLines : OutputLines[i] = formatted[k].line
        /\ \A i, j \in DOMAIN OutputLines :
               i < j =>
                   \A k, l \in DOMAIN formatted :
                       (/\ formatted[k].line = OutputLines[i]
                        /\ formatted[l].line = OutputLines[j]) =>
                           LET wk == DiffWeightOf(packages_updates[k])
                               wl == DiffWeightOf(packages_updates[l])
                           IN  /\ wk >= wl
                               /\ wk = wl => ~StrLess(packages_updates[l].name,
                                                      packages_updates[k].name)

\* two records given smallest diff first, and two of equal weight given in
\* descending order of name, have been sorted
C6_Witness ==
    /\ pc = "returned"
    /\ upgrade_sorting = "versiondiff"
    /\ Len(packages_updates) = 2
    /\ \/ DiffWeightOf(packages_updates[1]) < DiffWeightOf(packages_updates[2])
       \/ /\ DiffWeightOf(packages_updates[1]) = DiffWeightOf(packages_updates[2])
          /\ StrLess(packages_updates[2].name, packages_updates[1].name)
    /\ OutputLines = <<formatted[2].line, formatted[1].line>>

\* C10: within one call of pretty_format_upgradeable every record's line is
\* laid out with the same column width and every sort key is built with the
\* same sort mode, also when the terminal is resized during the call.
C10_OneWidthPerCall ==
    \A i, j \in DOMAIN formatted :
        /\ formatted[i].column_width = formatted[j].column_width
        /\ formatted[i].sorting = formatted[j].sorting

-----------------------------------------------------------------------------
(* Claims about pretty_format_sysupgrade (SpecSys) *)

\* the header of each category: <<singular, plural>>
CategoryLabel ==
    [c \in {FixedOrder[k] : k \in 1..8} |->
        CASE c = "repo_replacements_install_info" ->
                 <<"Repository package suggested as a replacement:",
                   "Repository packages suggested as a replacement:">>
          [] c = "thirdparty_repo_replacements_install_info" ->
                 <<"Third-party repository package suggested as a replacement:",
                   "Third-party repository packages suggested as a replacement:">>
          [] c = "repo_packages_install_info" ->
                 <<"Repository package will be installed:",
                   "Repository packages will be installed:">>
          [] c = "new_repo_deps_install_info" ->
                 <<"New dependency will be installed from repository:",
                   "New dependencies will be installed from repository:">>
          [] c = "thirdparty_repo_packages_install_info" ->
                 <<"Third-party repository package will be installed:",
                   "Third-party repository packages will be installed:">>
          [] c = "new_thirdparty_repo_deps_install_info" ->
                 <<"New dependency will be installed from third-party repository:",
                   "New dependencies will be installed from third-party repository:">>
          [] c = "aur_updates_install_info" ->
                 <<"AUR package will be installed:",
                   "AUR packages will be installed:">>
          [] c = "aur_deps_install_info" ->
                 <<"New dependency will be installed from AUR:",
                   "New dependencies will be installed from AUR:">>]

Contains(text, sub) ==
    \E i \in 1..(Len(text) - Len(sub) + 1) : SubSeq(text, i, i + Len(sub) - 1) = sub

IsHeaderOf(line, c) ==
    \E i \in DOMAIN line : line[i] \in {CategoryLabel[c][1], CategoryLabel[c][2]}

IsRecordOf(line, c) ==
    \E j \in DOMAIN install_info[c] : Contains(line, install_info[c][j].name)

\* what a line of the report is
LineTag(line) ==
    IF line = <<>> THEN "blank"
    ELSE IF \E c \in DOMAIN CategoryLabel : IsHeaderOf(line, c)
         THEN "header:" \o (CHOOSE c \in DOMAIN CategoryLabel : IsHeaderOf(line, c))
    ELSE IF \E c \in DOMAIN CategoryLabel : IsRecordOf(line, c)
         THEN "record:" \o (CHOOSE c \in DOMAIN CategoryLabel : IsRecordOf(line, c))
    ELSE "other"

ReportTags == LET lines == SplitLines(result) IN [i \in DOMAIN lines |-> LineTag(lines[i])]

\* per non-empty category of cats, in order: a blank line, its header, one
\* line per record; then the trailing blank line
RECURSIVE ExpectedTags(_)
ExpectedTags(cats) ==
    IF cats = <<>> THEN <<"blank">>
    ELSE (IF install_info[cats[1]] = <<>> THEN <<>>
          ELSE <<"blank", "header:" \o cats[1]>>
               \o [j \in DOMAIN install_info[cats[1]] |-> "record:" \o cats[1]])
         \o ExpectedTags(Tail(cats))

\* C1: with manual selection off the report is, for the non-empty categories
\* in the fixed order repo-replacement, thirdparty-replacement, repo-update,
\* repo-new-dep, thirdparty-update, thirdparty-new-dep, aur-update,
\* aur-new-dep, one header immediately followed by the lines of that
\* category's records; an empty category has no header and no line.
C1_FixedCategoryOrder ==
    (pc # "called" /\ ~manual_package_selection) =>
        /\ pc = "returned"
        /\ ReportTags = ExpectedTags(FixedOrder)

\* the report of a sysupgrade with a record in every category
C1_Witness ==
    /\ pc = "returned"
    /\ ~manual_package_selection
    /\ always_show_origin
    /\ \A c \in DOMAIN install_info : install_info[c] # <<>>
    /\ \E c \in DOMAIN install_info : Len(install_info[c]) = 2

\* C2: with manual_package_selection the returned report holds no "new
\* dependency" header, no record of the three new-dependency lists and no
\* color escape sequence.
C2_ManualSelection ==
    (pc = "returned" /\ manual_package_selection) =>
        /\ ~HasEscape(result)
        /\ LET tags == ReportTags
           IN  \A i \in DOMAIN tags :
                   \A c \in NewDepCategories :
                       tags[i] \notin {"header:" \o c, "record:" \o c}

\* a report made with manual selection from new dependencies and updates
C2_Witness ==
    /\ pc = "returned"
    /\ manual_package_selection
    /\ \A c \in NewDepCategories : install_info[c] # <<>>
    /\ install_info["repo_packages_install_info"] # <<>>
    /\ install_info["aur_updates_install_info"] # <<>>
    /\ Len(result) > 1

\* C4: the header of every emitted category is singular if and only if that
\* category holds exactly one record.
C4_OwnCountPlural ==
    pc = "returned" =>
        \A c \in DOMAIN CategoryLabel :
            \A line \in {SplitLines(result)[i] : i \in DOMAIN SplitLines(result)} :
                IsHeaderOf(line, c) =>
                    ((\E i \in DOMAIN line : line[i] = CategoryLabel[c][1])
                        <=> Len(install_info[c]) = 1)

-----------------------------------------------------------------------------
(* Claims about print_package_search_results (SpecSearch) *)

\* the name the i-th iteration printed
IsOutputOf(i, package) ==
    IF quiet THEN stdout[i] = <<package.name>>
    ELSE Contains(stdout[i][1], bold_line(package.name))

\* the place in packages of the package printed by the i-th iteration
InputOf(i) == CHOOSE k \in DOMAIN packages : IsOutputOf(i, packages[k])

\* the sort key as specified, times PopScale: (numVotes + 1) * (popularity + 1)
\* for a record of the AUR with both metrics, 1 for any other
SpecifiedKey(package) ==
    IF package.kind = "aur" /\ package.numvotes # Absent /\ package.popularity # Absent
    THEN (package.numvotes + 1) * (package.popularity + PopScale)
    ELSE PopScale

\* C5: the records are emitted by descending key, the key being
\* (numVotes + 1) * (popularity + 1) for an AUR record with both metrics and
\* 1 for every other record; records of equal key keep their input order.
\* Violated by a record of the AUR whose popularity is an int: both metrics
\* are present and printed, yet get_sort_key gives it the neutral key.
C5_SearchOrder ==
    /\ \A i \in DOMAIN stdout : \E k \in DOMAIN packages : IsOutputOf(i, packages[k])
    /\ \A i, j \in DOMAIN stdout :
           i < j =>
               LET p == packages[InputOf(i)]
                   q == packages[InputOf(j)]
               IN  /\ InputOf(i) # InputOf(j)
                   /\ SpecifiedKey(p) >= SpecifiedKey(q)
                   /\ SpecifiedKey(p) = SpecifiedKey(q) => InputOf(i) < InputOf(j)
    /\ pc = "returned" => Len(stdout) = Len(packages)

HasChunk(text, chunk) == \E i \in DOMAIN text : text[i] = chunk

\* C7: a non-quiet line of a package that is a key of local_pkgs_versions
\* carries "[installed: X]", X the installed version, if and only if X
\* differs from the version found, and "[installed]" if and only if they are
\* equal; the line of any other package carries no installed marker.
C7_InstalledMarker ==
    ~quiet =>
        \A i \in DOMAIN stdout :
            LET package == packages[InputOf(i)]
                line == stdout[i][1]
            IN  IF package.name \in DOMAIN local_pkgs_versions
                THEN LET installed == local_pkgs_versions[package.name]
                     IN  /\ Contains(line, <<"[installed: ">> \o installed \o <<"]">>)
                                <=> installed # package.version
                         /\ HasChunk(line, "[installed: ") <=> installed # package.version
                         /\ HasChunk(line, "[installed]") <=> installed = package.version
                ELSE ~HasChunk(line, "[installed: ") /\ ~HasChunk(line, "[installed]")

\* lines were printed for an installed package found at another version, one
\* found at the installed version and one that is not installed
C7_Witness ==
    /\ pc = "returned"
    /\ ~quiet
    /\ \E i, j, k \in DOMAIN stdout :
           /\ HasChunk(stdout[i][1], "[installed: ")
           /\ HasChunk(stdout[j][1], "[installed]")
           /\ packages[InputOf(k)].name \notin DOMAIN local_pkgs_versions

====
